---- MODULE Spec2Model ----
(***************************************************************************)
(* Model of the pygame backend of mini-arcade: the texture registry and    *)
(* the drawing primitives of RenderPort (ports/render.py), the viewport    *)
(* setters of PygameBackend (pygame_backend.py), the font cache of         *)
(* TextPort (ports/text.py) and the event translation of InputPort.poll    *)
(* (ports/input.py).                                                       *)
(*                                                                         *)
(* A pygame Surface is modelled as its size and its bytes (RGBA, 4 bytes   *)
(* per pixel, rows tightly packed); the display surface as a function from *)
(* pixel positions to RGB colours together with its clip rectangle.        *)
(***************************************************************************)
EXTENDS Integers, Sequences, FiniteSets, TLC

\* ------------------------------------------------------------------ bounds
MaxTex == 2      \* create_texture_rgba is called at most MaxTex times with success
MaxW == 1        \* texture widths are 1..MaxW pixels
MaxH == 2        \* texture heights are 1..MaxH pixels
MaxPad == 1      \* padded rows carry 1..MaxPad extra bytes
ScreenW == 2     \* width of the display surface in pixels
ScreenH == 3     \* height of the display surface in pixels
MaxQueue == 3    \* raw events pending between two polls

None == "None"
NoError == "none"
BufferTooSmall == "ValueError: create_texture_rgba: buffer too small"
FromBufferError == "ValueError: Buffer length does not equal format and resolution size"
ResolutionError == "ValueError: Resolution must be positive values"
KeyError == "KeyError"

BLACK == <<0, 0, 0>>
WHITE == <<255, 255, 255>>
RED == <<255, 0, 0>>
Colors == {BLACK, WHITE}

Min(a, b) == IF a < b THEN a ELSE b
Max(a, b) == IF a < b THEN b ELSE a

\* ---------------------------------------------------------- python helpers
\* mv[a:b] of a buffer (0-based, end exclusive, both ends clamped to the
\* buffer; a, b >= 0 here).
PySlice(buf, a, b) ==
  LET lo == Min(a, Len(buf))
      hi == Min(b, Len(buf))
  IN IF hi <= lo THEN <<>> ELSE SubSeq(buf, lo + 1, hi)

\* buf[a:b] = src on a bytearray: the slice (clamped to the buffer) is
\* replaced by src, and the bytearray shrinks or grows when the lengths differ.
PySliceAssign(buf, a, b, src) ==
  LET lo == Min(a, Len(buf))
      hi == Max(lo, Min(b, Len(buf)))
  IN SubSeq(buf, 1, lo) \o src \o SubSeq(buf, hi + 1, Len(buf))

Zeros(n) == [i \in 1..n |-> 0]

\* ------------------------------------------------------------------- state
VARIABLES
  next_tex_id,   \* RenderPort._next_tex_id
  textures,      \* RenderPort._textures: handle -> surface [w, h, px]
  uploads,       \* history: the successful creates in order, each with its
                 \* arguments and the handle it returned
  clear,         \* RenderPort._clear, an (r, g, b, a) tuple
  screen,        \* WindowPort.screen: pixel <<x, y>> -> colour
  clip,          \* the clip rectangle of WindowPort.screen
  vp,            \* PygameBackend._vp, the ViewportTransform shared by the ports
  queue,         \* the raw event queue of pygame
  polled,        \* history: the raw events the last poll() took from the queue
  out,           \* the list the last poll() returned
  fonts,         \* TextPort._fonts: pixel size -> font
  font_log,      \* history: the sizes pygame.font.Font was constructed with, in order
  pc,            \* "idle", or "tiling" inside the loop of draw_texture_tiled_y
  last           \* the last call: its name, the exception it raised, its result,
                 \* and the arguments and locals of a texture draw

regVars == <<next_tex_id, textures, uploads>>
surfVars == <<clear, screen, clip>>
inputVars == <<queue, polled, out>>
textVars == <<fonts, font_log>>
vars == <<next_tex_id, textures, uploads, clear, screen, clip, vp, queue,
          polled, out, fonts, font_log, pc, last>>

Pixels == (0..(ScreenW - 1)) \X (0..(ScreenH - 1))
FullRect == [x |-> 0, y |-> 0, w |-> ScreenW, h |-> ScreenH]
CalledWith(op, raised, ret, args) ==
  [op |-> op, raised |-> raised, ret |-> ret, args |-> args]
Called(op, raised, ret) == CalledWith(op, raised, ret, <<>>)

\* mini_arcade_core.backend.utils.rgba as RenderPort uses it: an (r, g, b)
\* colour gets alpha 255.
rgba(c) == <<c[1], c[2], c[3], 255>>

\* ------------------------------------------------ RenderPort: the registry
\* The slow path of create_texture_rgba: packed starts as w*h*4 zero bytes
\* and row by row packed[dst0:dst1] = mv[src0:src1].
RECURSIVE RepackRows(_, _, _, _, _, _)
RepackRows(packed, mv, w, h, pitch, row) ==
  IF row >= h THEN packed
  ELSE LET src0 == row * pitch
           src1 == src0 + (w * 4)
           dst0 == row * (w * 4)
           dst1 == dst0 + (w * 4)
       IN RepackRows(PySliceAssign(packed, dst0, dst1, PySlice(mv, src0, src1)),
                     mv, w, h, pitch, row + 1)

Repack(mv, w, h, pitch) == RepackRows(Zeros(w * h * 4), mv, w, h, pitch, 0)

\* A pitch that is always taken as tight.
EffectivePitchTight(w, pitch) == w * 4

\* if pitch <= 0: pitch = w * 4
EffectivePitch(w, pitch) == IF pitch <= 0 THEN w * 4 ELSE pitch

\* An upload that takes the fast path whatever the pitch.
UploadBytesNoRepack(w, h, data, pitch) == PySlice(data, 0, w * h * 4)

\* The bytes create_texture_rgba hands to pygame.image.frombuffer.
UploadBytes(w, h, data, pitch) ==
  LET p == EffectivePitch(w, pitch)
      needed == h * p
  IN IF p = w * 4 THEN PySlice(data, 0, needed) ELSE Repack(data, w, h, p)

\* A handle taken from the size of the registry instead of the counter.
TexIdFromSize == Cardinality(DOMAIN textures) + 1

\* tex_id = self._next_tex_id
TexId == next_tex_id

\* A frombuffer that takes a surface of no width or no height.
ResolutionAny(w, h) == TRUE

\* pygame.image.frombuffer refuses a size with w < 1 or h < 1, before it
\* looks at the length of the buffer.
ResolutionOk(w, h) == w >= 1 /\ h >= 1

\* (w, h >= 0 here.)
create_texture_rgba(w, h, data, pitch) ==
  LET p == EffectivePitch(w, pitch)
      needed == h * p
      buf == UploadBytes(w, h, data, pitch)
      args == [w |-> w, h |-> h, data |-> data, pitch |-> pitch]
  IN /\ pc = "idle"
     /\ next_tex_id <= MaxTex
     /\ IF Len(data) < needed
        THEN /\ last' = CalledWith("create_texture_rgba", BufferTooSmall, 0, args)
             /\ UNCHANGED regVars
        ELSE IF ~ResolutionOk(w, h)
        THEN /\ last' = CalledWith("create_texture_rgba", ResolutionError, 0, args)
             /\ UNCHANGED regVars
        ELSE IF Len(buf) # w * h * 4
        THEN /\ last' = CalledWith("create_texture_rgba", FromBufferError, 0, args)
             /\ UNCHANGED regVars
        ELSE /\ textures' = [t \in DOMAIN textures \cup {TexId} |->
                               IF t = TexId THEN [w |-> w, h |-> h, px |-> buf]
                               ELSE textures[t]]
             /\ next_tex_id' = next_tex_id + 1
             /\ uploads' = Append(uploads, [w |-> w, h |-> h, data |-> data,
                                            pitch |-> pitch, handle |-> TexId])
             /\ last' = CalledWith("create_texture_rgba", NoError, TexId, args)
     /\ UNCHANGED <<surfVars, vp, inputVars, textVars, pc>>

\* del self._textures[tex] in place of the pop with a default.
destroy_texture_del(tex) ==
  /\ pc = "idle"
  /\ IF tex \in DOMAIN textures
     THEN /\ textures' = [t \in DOMAIN textures \ {tex} |-> textures[t]]
          /\ last' = CalledWith("destroy_texture", NoError, 0, [tex |-> tex])
     ELSE /\ textures' = textures
          /\ last' = CalledWith("destroy_texture", KeyError, 0, [tex |-> tex])
  /\ UNCHANGED <<next_tex_id, uploads, surfVars, vp, inputVars, textVars, pc>>

\* self._textures.pop(int(tex), None)
destroy_texture(tex) ==
  /\ pc = "idle"
  /\ textures' = [t \in DOMAIN textures \ {tex} |-> textures[t]]
  /\ last' = CalledWith("destroy_texture", NoError, 0, [tex |-> tex])
  /\ UNCHANGED <<next_tex_id, uploads, surfVars, vp, inputVars, textVars, pc>>

\* ------------------------------------------------------ ViewportTransform
\* The scale is a float in the code; here it is the exact fraction num/den.
Scale(num, den) == [num |-> num, den |-> den]
Identity == [ox |-> 0, oy |-> 0, s |-> Scale(1, 1)]

\* int(round(n/d)) for d > 0: Python rounds to nearest, ties to even.
PyRound(n, d) ==
  LET q == n \div d
      r == n % d
  IN IF 2 * r < d THEN q
     ELSE IF 2 * r > d THEN q + 1
     ELSE IF q % 2 = 0 THEN q ELSE q + 1

map_xy(t, x, y) ==
  <<t.ox + PyRound(x * t.s.num, t.s.den), t.oy + PyRound(y * t.s.num, t.s.den)>>

map_wh(t, w, h) == <<PyRound(w * t.s.num, t.s.den), PyRound(h * t.s.num, t.s.den)>>

set_viewport_transform(offset_x, offset_y, scale) ==
  /\ pc = "idle"
  /\ vp' = [ox |-> offset_x, oy |-> offset_y, s |-> scale]
  /\ last' = CalledWith("set_viewport_transform", NoError, 0,
                        [offset_x |-> offset_x, offset_y |-> offset_y, scale |-> scale])
  /\ UNCHANGED <<regVars, surfVars, inputVars, textVars, pc>>

clear_viewport_transform ==
  /\ pc = "idle"
  /\ vp' = Identity
  /\ last' = Called("clear_viewport_transform", NoError, 0)
  /\ UNCHANGED <<regVars, surfVars, inputVars, textVars, pc>>

\* ---------------------------------------------------------- pygame surface
Rect(x, y, w, h) == [x |-> x, y |-> y, w |-> w, h |-> h]

InRect(p, r) ==
  /\ r.x <= p[1] /\ p[1] < r.x + r.w
  /\ r.y <= p[2] /\ p[2] < r.y + r.h

\* Surface.set_clip keeps the rectangle cropped to the surface (an empty
\* rectangle when they do not meet).
CropToSurface(r) ==
  LET x0 == Max(r.x, 0)
      y0 == Max(r.y, 0)
      x1 == Min(r.x + r.w, ScreenW)
      y1 == Min(r.y + r.h, ScreenH)
  IN IF x1 <= x0 \/ y1 <= y0 THEN Rect(x0, y0, 0, 0)
     ELSE Rect(x0, y0, x1 - x0, y1 - y0)

\* Surface.fill(color) and pygame.draw.rect(surface, color, rect): the
\* pixels of the rectangle that lie in the clip area take the colour.
FillRect(scr, cl, r, color) ==
  [p \in Pixels |-> IF InRect(p, r) /\ InRect(p, cl) THEN color ELSE scr[p]]

\* The 4 bytes of pixel (u, v) of a surface.
Texel(surf, u, v) == SubSeq(surf.px, (v * surf.w + u) * 4 + 1, (v * surf.w + u) * 4 + 4)

\* pygame.transform.scale(surf, (sw, sh)): each target pixel takes the
\* source pixel its position falls on.
TransformScale(surf, sw, sh) ==
  [w |-> sw, h |-> sh,
   px |-> [i \in 1..(sw * sh * 4) |->
             LET k == (i - 1) \div 4
                 u == k % sw
                 v == k \div sw
             IN Texel(surf, (u * surf.w) \div sw, (v * surf.h) \div sh)[((i - 1) % 4) + 1]]]

\* surf.subsurface(Rect(0, 0, w, rows)): the top rows of the surface.
Subsurface(surf, w, rows) ==
  [w |-> w, h |-> rows,
   px |-> [i \in 1..(w * rows * 4) |->
             Texel(surf, ((i - 1) \div 4) % w, ((i - 1) \div 4) \div w)[((i - 1) % 4) + 1]]]

\* One channel of a per-pixel-alpha blit onto an opaque destination.
Blend(s, d, a) == (((s - d) * a + s) \div 256) + d

\* screen.blit(surf, (x, y)): every pixel of surf that lands in the clip
\* area is blended over the pixel under it.
Blit(scr, cl, surf, x, y) ==
  [p \in Pixels |->
     IF InRect(p, Rect(x, y, surf.w, surf.h)) /\ InRect(p, cl)
     THEN LET t == Texel(surf, p[1] - x, p[2] - y)
          IN <<Blend(t[1], scr[p][1], t[4]), Blend(t[2], scr[p][2], t[4]),
               Blend(t[3], scr[p][3], t[4])>>
     ELSE scr[p]]

\* ------------------------------------------------- RenderPort: frame, clip
set_clear_color(r, g, b) ==
  /\ pc = "idle"
  /\ clear' = <<r, g, b, 255>>
  /\ last' = Called("set_clear_color", NoError, 0)
  /\ UNCHANGED <<regVars, screen, clip, vp, inputVars, textVars, pc>>

begin_frame ==
  /\ pc = "idle"
  /\ screen' = FillRect(screen, clip, FullRect, <<clear[1], clear[2], clear[3]>>)
  /\ last' = Called("begin_frame", NoError, 0)
  /\ UNCHANGED <<regVars, clear, clip, vp, inputVars, textVars, pc>>

\* pygame.display.flip() presents the surface and leaves it as it is.
end_frame ==
  /\ pc = "idle"
  /\ last' = Called("end_frame", NoError, 0)
  /\ UNCHANGED <<regVars, surfVars, vp, inputVars, textVars, pc>>

\* A clip rectangle passed through the viewport transform as the draws are.
set_clip_rect_mapped(x, y, w, h) ==
  LET sxy == map_xy(vp, x, y)
      swh == map_wh(vp, w, h)
  IN /\ pc = "idle"
     /\ clip' = CropToSurface(Rect(sxy[1], sxy[2], swh[1], swh[2]))
     /\ last' = CalledWith("set_clip_rect", NoError, 0, Rect(x, y, w, h))
     /\ UNCHANGED <<regVars, clear, screen, vp, inputVars, textVars, pc>>

set_clip_rect(x, y, w, h) ==
  /\ pc = "idle"
  /\ clip' = CropToSurface(Rect(x, y, w, h))
  /\ last' = CalledWith("set_clip_rect", NoError, 0, Rect(x, y, w, h))
  /\ UNCHANGED <<regVars, clear, screen, vp, inputVars, textVars, pc>>

clear_clip_rect ==
  /\ pc = "idle"
  /\ clip' = FullRect
  /\ last' = Called("clear_clip_rect", NoError, 0)
  /\ UNCHANGED <<regVars, clear, screen, vp, inputVars, textVars, pc>>

\* -------------------------------------------------------- RenderPort: draws
\* A rectangle drawn at the coordinates it is given.
draw_rect_unmapped(x, y, w, h, color) ==
  /\ pc = "idle"
  /\ screen' = FillRect(screen, clip, Rect(x, y, w, h), color)
  /\ last' = CalledWith("draw_rect", NoError, 0,
                        [x |-> x, y |-> y, w |-> w, h |-> h, color |-> color,
                         rect |-> Rect(x, y, w, h)])
  /\ UNCHANGED <<regVars, clear, clip, vp, inputVars, textVars, pc>>

\* last.args.rect is the pygame.Rect handed to pygame.draw.rect.
draw_rect(x, y, w, h, color) ==
  LET c == rgba(color)
      sxy == map_xy(vp, x, y)
      swh == map_wh(vp, w, h)
  IN /\ pc = "idle"
     /\ screen' = FillRect(screen, clip, Rect(sxy[1], sxy[2], swh[1], swh[2]),
                           <<c[1], c[2], c[3]>>)
     /\ last' = CalledWith("draw_rect", NoError, 0,
                           [x |-> x, y |-> y, w |-> w, h |-> h, color |-> color,
                            rect |-> Rect(sxy[1], sxy[2], swh[1], swh[2])])
     /\ UNCHANGED <<regVars, clear, clip, vp, inputVars, textVars, pc>>

\* pygame.draw.line between two points of one row or one column paints the
\* segment with both ends.
OnLine(p, x1, y1, x2, y2) ==
  /\ Min(x1, x2) <= p[1] /\ p[1] <= Max(x1, x2)
  /\ Min(y1, y2) <= p[2] /\ p[2] <= Max(y1, y2)

\* Called with x1 = x2 or y1 = y2.
draw_line(x1, y1, x2, y2, color) ==
  LET c == rgba(color)
      s1 == map_xy(vp, x1, y1)
      s2 == map_xy(vp, x2, y2)
  IN /\ pc = "idle"
     /\ screen' = [p \in Pixels |->
                     IF OnLine(p, s1[1], s1[2], s2[1], s2[2]) /\ InRect(p, clip)
                     THEN <<c[1], c[2], c[3]>> ELSE screen[p]]
     /\ last' = Called("draw_line", NoError, 0)
     /\ UNCHANGED <<regVars, clear, clip, vp, inputVars, textVars, pc>>

\* The record of one screen.blit(surf, (x, y)) in the log of a call.
Blitted(surf, x, y) == [x |-> x, y |-> y, w |-> surf.w, h |-> surf.h, px |-> surf.px]

\* A placeholder drawn for a handle that is not registered.
draw_texture_miss_placeholder(tex, x, y, w, h) ==
  /\ last' = CalledWith("draw_texture", NoError, 0,
                        [tex |-> tex, x |-> x, y |-> y, w |-> w, h |-> h])
  /\ screen' = FillRect(screen, clip, Rect(x, y, w, h), WHITE)

\* surf is None: return
draw_texture_miss(tex, x, y, w, h) ==
  /\ last' = CalledWith("draw_texture", NoError, 0,
                        [tex |-> tex, x |-> x, y |-> y, w |-> w, h |-> h])
  /\ UNCHANGED screen

\* last.args.blits is the log of the screen.blit calls of the call.
draw_texture_hit(tex, x, y, w, h) ==
  LET surf == textures[tex]
      sxy == map_xy(vp, x, y)
      swh == map_wh(vp, w, h)
      sw == swh[1]
      sh == swh[2]
      scaled == TransformScale(surf, sw, sh)
      args == [tex |-> tex, x |-> x, y |-> y, w |-> w, h |-> h]
  IN IF sw <= 0 \/ sh <= 0
     THEN /\ last' = CalledWith("draw_texture", NoError, 0, args @@ [blits |-> <<>>])
          /\ UNCHANGED screen
     ELSE IF surf.w # sw \/ surf.h # sh
     THEN /\ last' = CalledWith("draw_texture", NoError, 0,
                                args @@ [blits |-> <<Blitted(scaled, sxy[1], sxy[2])>>])
          /\ screen' = Blit(screen, clip, scaled, sxy[1], sxy[2])
     ELSE /\ last' = CalledWith("draw_texture", NoError, 0,
                                args @@ [blits |-> <<Blitted(surf, sxy[1], sxy[2])>>])
          /\ screen' = Blit(screen, clip, surf, sxy[1], sxy[2])

draw_texture(tex, x, y, w, h) ==
  /\ pc = "idle"
  /\ IF tex \notin DOMAIN textures
     THEN draw_texture_miss(tex, x, y, w, h)
     ELSE draw_texture_hit(tex, x, y, w, h)
  /\ UNCHANGED <<regVars, clear, clip, vp, inputVars, textVars, pc>>

\* draw_texture_tiled_y up to its loop: the lookup self._textures[tex_id]
\* raises KeyError for a handle that is not registered.  (w >= 0 here.)
draw_texture_tiled_y(tex_id, x, y, w, h) ==
  /\ pc = "idle"
  /\ IF tex_id \notin DOMAIN textures
     THEN /\ last' = CalledWith("draw_texture_tiled_y", KeyError, 0,
                                [tex |-> tex_id, x |-> x, y |-> y, w |-> w, h |-> h,
                                 tile_h |-> 0, cur_y |-> 0, end_y |-> 0, blits |-> <<>>])
          /\ pc' = "idle"
     ELSE /\ last' = CalledWith("draw_texture_tiled_y", NoError, 0,
                                [tex |-> tex_id, x |-> x, y |-> y, w |-> w, h |-> h,
                                 tile_h |-> textures[tex_id].h,
                                 cur_y |-> y, end_y |-> y + h, blits |-> <<>>])
          /\ pc' = "tiling"
  /\ UNCHANGED <<regVars, surfVars, vp, inputVars, textVars>>

\* The last tile blitted whole.
PartialTileUncropped(tile, w, remaining) == tile

\* tile.subsurface(pygame.Rect(0, 0, int(w), int(remaining)))
PartialTile(tile, w, remaining) == Subsurface(tile, w, remaining)

\* One test of `while cur_y < end_y` and the body that follows it.
TileStep ==
  LET f == last.args
      tile == TransformScale(textures[f.tex], f.w, f.tile_h)
      remaining == f.end_y - f.cur_y
      partial == PartialTile(tile, f.w, remaining)
  IN /\ pc = "tiling"
     /\ IF f.cur_y < f.end_y
        THEN IF remaining >= f.tile_h
             THEN /\ screen' = Blit(screen, clip, tile, f.x, f.cur_y)
                  /\ last' = [last EXCEPT
                                !.args.blits = Append(@, Blitted(tile, f.x, f.cur_y)),
                                !.args.cur_y = @ + f.tile_h]
                  /\ pc' = "tiling"
             ELSE /\ screen' = Blit(screen, clip, partial, f.x, f.cur_y)
                  /\ last' = [last EXCEPT
                                !.args.blits = Append(@, Blitted(partial, f.x, f.cur_y))]
                  /\ pc' = "idle"
        ELSE /\ pc' = "idle"
             /\ UNCHANGED <<screen, last>>
     /\ UNCHANGED <<regVars, clear, clip, vp, inputVars, textVars>>

\* -------------------------------------------------------------- TextPort
\* TextPort is built without a font_path: pygame's default font.
font_path == None

\* pygame.font.Font(path, size); serial tells one constructed font from
\* another of the same path and size.
Font(path, size, serial) == [path |-> path, size |-> size, serial |-> serial]

\* Font.size(text) and the surface of Font.render(text, True, color): the
\* glyphs are taken as cells size \div 2 wide and size high, fully covered.
FontSize(f, text) == <<Len(text) * (f.size \div 2), f.size>>

\* A font_size argument (int | None) is <<n>> for the integer n and <<>>
\* for None.
NoSize == <<>>
Size(n) == <<n>>

\* size = int(font_size or 24); size = max(8, size)
CacheKey(font_size) ==
  Max(8, IF font_size = NoSize \/ font_size[1] = 0 THEN 24 ELSE font_size[1])

\* The font _font returns: the cached one, or a new one.
FontOf(font_size) ==
  IF CacheKey(font_size) \in DOMAIN fonts THEN fonts[CacheKey(font_size)]
  ELSE Font(font_path, CacheKey(font_size), Len(font_log) + 1)

\* The effect of _font on the cache: a font constructed by the call is
\* stored under its size.  (A Font object is true in `if cached`.)
_font(font_size) ==
  LET size == CacheKey(font_size)
      f == FontOf(font_size)
  IN IF size \in DOMAIN fonts
     THEN UNCHANGED <<fonts, font_log>>
     ELSE /\ fonts' = [k \in DOMAIN fonts \cup {size} |-> IF k = size THEN f ELSE fonts[k]]
          /\ font_log' = Append(font_log, size)

\* None if font_size is None else max(8, int(round(font_size * self._vp.s)))
ScaledSize(font_size) ==
  IF font_size = NoSize THEN NoSize
  ELSE Size(Max(8, PyRound(font_size[1] * vp.s.num, vp.s.den)))

\* int(round(px / s)) with s = self._vp.s or 1.0
Unscale(px) == IF vp.s.num = 0 THEN px ELSE PyRound(px * vp.s.den, vp.s.num)

measure(text, font_size) ==
  LET scaled_size == ScaledSize(font_size)
      f == FontOf(scaled_size)
      px == FontSize(f, text)
  IN /\ pc = "idle"
     /\ _font(scaled_size)
     /\ last' = CalledWith("measure", NoError, <<Unscale(px[1]), Unscale(px[2])>>,
                           [text |-> text, font_size |-> font_size, font |-> f])
     /\ UNCHANGED <<regVars, surfVars, vp, inputVars, pc>>

\* A draw that hands _font the size it was given.
draw_unscaled(x, y, text, color, font_size) ==
  LET c == rgba(color)
      sxy == map_xy(vp, x, y)
      f == FontOf(font_size)
      px == FontSize(f, text)
  IN /\ pc = "idle"
     /\ _font(font_size)
     /\ screen' = FillRect(screen, clip, Rect(sxy[1], sxy[2], px[1], px[2]),
                           <<c[1], c[2], c[3]>>)
     /\ last' = CalledWith("draw", NoError, 0,
                           [text |-> text, font_size |-> font_size, font |-> f])
     /\ UNCHANGED <<regVars, clear, clip, vp, inputVars, pc>>

draw(x, y, text, color, font_size) ==
  LET c == rgba(color)
      sxy == map_xy(vp, x, y)
      scaled_size == ScaledSize(font_size)
      f == FontOf(scaled_size)
      px == FontSize(f, text)
  IN /\ pc = "idle"
     /\ _font(scaled_size)
     /\ screen' = FillRect(screen, clip, Rect(sxy[1], sxy[2], px[1], px[2]),
                           <<c[1], c[2], c[3]>>)
     /\ last' = CalledWith("draw", NoError, 0,
                           [text |-> text, font_size |-> font_size, font |-> f])
     /\ UNCHANGED <<regVars, clear, clip, vp, inputVars, pc>>

\* ------------------------------------------------------------- InputPort
\* pygame's key codes.
K_BACKSPACE == 8
K_TAB == 9
K_RETURN == 13
K_ESCAPE == 27
K_SPACE == 32
K_0 == 48
K_a == 97
K_F1 == 1073741882
K_RIGHT == 1073741903
K_LEFT == 1073741904
K_DOWN == 1073741905
K_UP == 1073741906

LetterKeys == <<"A", "B", "C", "D", "E", "F", "G", "H", "I", "J", "K", "L", "M",
                "N", "O", "P", "Q", "R", "S", "T", "U", "V", "W", "X", "Y", "Z">>
DigitKeys == <<"NUM_0", "NUM_1", "NUM_2", "NUM_3", "NUM_4", "NUM_5", "NUM_6",
               "NUM_7", "NUM_8", "NUM_9">>
FunctionKeys == <<"F1", "F2", "F3", "F4", "F5", "F6", "F7", "F8", "F9", "F10",
                  "F11", "F12">>

\* The table, with the letters and digits its two loops add.
PYGAME_KEY_TO_KEY ==
  (K_ESCAPE :> "ESCAPE") @@ (K_RETURN :> "ENTER") @@ (K_SPACE :> "SPACE")
  @@ (K_TAB :> "TAB") @@ (K_BACKSPACE :> "BACKSPACE")
  @@ (K_UP :> "UP") @@ (K_DOWN :> "DOWN") @@ (K_LEFT :> "LEFT") @@ (K_RIGHT :> "RIGHT")
  @@ [k \in K_F1..(K_F1 + 11) |-> FunctionKeys[k - K_F1 + 1]]
  @@ [k \in K_a..(K_a + 25) |-> LetterKeys[k - K_a + 1]]
  @@ [k \in K_0..(K_0 + 9) |-> DigitKeys[k - K_0 + 1]]

\* A lookup whose default is a key of its own.
KeyTableGetUnknown(code) ==
  IF code \in DOMAIN PYGAME_KEY_TO_KEY THEN PYGAME_KEY_TO_KEY[code] ELSE "UNKNOWN"

\* PYGAME_KEY_TO_KEY.get(code)
KeyTableGet(code) ==
  IF code \in DOMAIN PYGAME_KEY_TO_KEY THEN PYGAME_KEY_TO_KEY[code] ELSE None

\* getattr(ev, name, default)
GetAttr(ev, name, default) == IF name \in DOMAIN ev THEN ev[name] ELSE default

\* The events one raw event appends to out: one or none.
MapEvent(ev) ==
  IF ev.type = "QUIT" THEN <<[type |-> "QUIT"]>>
  ELSE IF ev.type = "KEYDOWN" THEN
    <<[type |-> "KEYDOWN", key |-> KeyTableGet(ev.key), key_code |-> ev.key,
       scancode |-> GetAttr(ev, "scancode", None), mod |-> GetAttr(ev, "mod", None),
       repeat |-> GetAttr(ev, "repeat", FALSE)]>>
  ELSE IF ev.type = "KEYUP" THEN
    <<[type |-> "KEYUP", key |-> KeyTableGet(ev.key), key_code |-> ev.key,
       scancode |-> GetAttr(ev, "scancode", None), mod |-> GetAttr(ev, "mod", None),
       repeat |-> FALSE]>>
  ELSE IF ev.type = "VIDEORESIZE" THEN
    <<[type |-> "WINDOWRESIZED", size |-> <<ev.w, ev.h>>]>>
  ELSE IF ev.type = "TEXTINPUT" THEN <<[type |-> "TEXTINPUT", text |-> ev.text]>>
  ELSE IF ev.type = "MOUSEMOTION" THEN
    <<[type |-> "MOUSEMOTION", x |-> ev.pos[1], y |-> ev.pos[2],
       dx |-> ev.rel[1], dy |-> ev.rel[2]]>>
  ELSE IF ev.type = "MOUSEBUTTONDOWN" THEN
    <<[type |-> "MOUSEBUTTONDOWN", button |-> ev.button, x |-> ev.pos[1], y |-> ev.pos[2]]>>
  ELSE IF ev.type = "MOUSEBUTTONUP" THEN
    <<[type |-> "MOUSEBUTTONUP", button |-> ev.button, x |-> ev.pos[1], y |-> ev.pos[2]]>>
  ELSE IF ev.type = "MOUSEWHEEL" THEN <<[type |-> "MOUSEWHEEL", wheel |-> <<ev.x, ev.y>>]>>
  ELSE <<>>

\* A loop that puts each event in front of the ones before it.
RECURSIVE PollLoopPrepend(_, _, _)
PollLoopPrepend(raw, i, acc) ==
  IF i > Len(raw) THEN acc ELSE PollLoopPrepend(raw, i + 1, MapEvent(raw[i]) \o acc)

\* for ev in pygame.event.get(): ...
RECURSIVE PollLoop(_, _, _)
PollLoop(raw, i, acc) ==
  IF i > Len(raw) THEN acc ELSE PollLoop(raw, i + 1, acc \o MapEvent(raw[i]))

\* poll(): pygame.event.get() takes every pending event off the queue.
poll ==
  /\ pc = "idle"
  /\ out' = PollLoop(queue, 1, <<>>)
  /\ polled' = queue
  /\ queue' = <<>>
  /\ last' = Called("poll", NoError, 0)
  /\ UNCHANGED <<regVars, surfVars, vp, textVars, pc>>

\* The windowing system queues a raw event.  (out and polled describe the
\* poll that has just returned, and are empty after any other step.)
PostEvent(ev) ==
  /\ pc = "idle"
  /\ Len(queue) < MaxQueue
  /\ queue' = Append(queue, ev)
  /\ out' = <<>>
  /\ polled' = <<>>
  /\ last' = Called("post", NoError, 0)
  /\ UNCHANGED <<regVars, surfVars, vp, textVars, pc>>

\* ------------------------------------------------------------------ inputs
Args(w, h, data, pitch) == [w |-> w, h |-> h, data |-> data, pitch |-> pitch]

\* w*h pixels of one opaque colour, tightly packed.
Solid(w, h, c) == [i \in 1..(w * h * 4) |-> rgba(c)[((i - 1) % 4) + 1]]

\* n bytes, all different: byte i is i.
Linear(n) == [i \in 1..n |-> i]

\* h rows of pitch bytes: the w*4 pixel bytes of the row as Linear(w*h*4)
\* has them, then padding bytes of value pad.
Padded(w, h, pitch, pad) ==
  [i \in 1..(h * pitch) |->
     LET r == (i - 1) \div pitch
         c == (i - 1) % pitch
     IN IF c < w * 4 THEN r * w * 4 + c + 1 ELSE pad]

Take(data, n) == SubSeq(data, 1, Min(n, Len(data)))

PadBytes == {200, 201}
Widths == 1..MaxW
Heights == 1..MaxH

\* Buffers for the registry: solid textures, whole or one byte short.
SolidArgs ==
  {Args(w, h, Solid(w, h, WHITE), pitch) : w \in Widths, h \in Heights, pitch \in {-1, 0}}
  \cup {Args(1, h, Solid(1, h, RED), 4) : h \in Heights}
ShortArgs ==
  {Args(a.w, a.h, Take(a.data, Len(a.data) - 1), a.pitch) : a \in SolidArgs}
  \cup {Args(1, h, Linear(h * 5 - 1), 5) : h \in Heights}
RegistryArgs == SolidArgs \cup ShortArgs

\* Buffers for the upload: tightly packed, padded and narrow-pitched rows,
\* of the needed length, shorter and longer.
TightArgs ==
  UNION {{Args(w, h, Linear(w * h * 4 + d), -1), Args(w, h, Linear(w * h * 4 + d), w * 4)} :
           <<w, h, d>> \in Widths \X Heights \X {0, 1}}
PaddedArgs ==
  UNION {{Args(w, h, Padded(w, h, w * 4 + k, pad), w * 4 + k),
          Args(w, h, Take(Padded(w, h, w * 4 + k, pad), h * (w * 4 + k) - 1), w * 4 + k)} :
           <<w, h, k, pad>> \in Widths \X Heights \X (1..MaxPad) \X PadBytes}
NarrowArgs ==
  UNION {{Args(1, h, Linear(3 * h), 3), Args(1, h, Linear(3 * h + 1), 3)} : h \in Heights}
UploadArgs == TightArgs \cup PaddedArgs \cup NarrowArgs

\* Tiles one pixel wide: opaque, white in the top row and a little less
\* blue in each row below it.
Rows(h) == [i \in 1..(h * 4) |-> IF i % 4 = 3 THEN 255 - ((i - 1) \div 4) ELSE 255]
TileArgs == {Args(1, h, Rows(h), -1) : h \in {1, MaxH}}

Handles == 1..(MaxTex + 1)
Transforms ==
  {Identity, [ox |-> 0, oy |-> 1, s |-> Scale(2, 1)], [ox |-> 1, oy |-> 0, s |-> Scale(1, 2)],
   [ox |-> 10, oy |-> 20, s |-> Scale(2, 1)]}

\* ------------------------------------------------------------------- specs
Init ==
  /\ next_tex_id = 1
  /\ textures = [t \in {} |-> 0]
  /\ uploads = <<>>
  /\ clear = rgba(BLACK)
  /\ screen = [p \in Pixels |-> BLACK]
  /\ clip = FullRect
  /\ vp = Identity
  /\ queue = <<>>
  /\ polled = <<>>
  /\ out = <<>>
  /\ fonts = [k \in {} |-> 0]
  /\ font_log = <<>>
  /\ pc = "idle"
  /\ last = Called("init", NoError, 0)

\* The texture registry.
NextRegistry ==
  \/ \E a \in RegistryArgs : create_texture_rgba(a.w, a.h, a.data, a.pitch)
  \/ \E t \in Handles : destroy_texture(t)

SpecRegistry == Init /\ [][NextRegistry]_vars

\* Two uploads, to be compared.
NextUpload ==
  \/ \E a \in UploadArgs : next_tex_id <= 2 /\ create_texture_rgba(a.w, a.h, a.data, a.pitch)
  \/ \E t \in Handles : destroy_texture(t)

SpecUpload == Init /\ [][NextUpload]_vars

\* Two textures and the draws that use them; handle 3 is never created.
DrawHandles == {1, 2, 3}

Next ==
  \/ \E a \in TileArgs : next_tex_id <= 2 /\ create_texture_rgba(a.w, a.h, a.data, a.pitch)
  \/ \E t \in DrawHandles : destroy_texture(t)
  \/ set_viewport_transform(0, 1, Scale(2, 1))
  \/ clear_viewport_transform
  \/ \E t \in DrawHandles, h \in 1..2 : draw_texture(t, 0, 0, 1, h)
  \/ \E t \in DrawHandles, y \in 0..1, h \in 0..(ScreenH + 1) : draw_texture_tiled_y(t, 0, y, 1, h)
  \/ TileStep

Spec == Init /\ [][Next]_vars

\* The frame protocol, the clip rectangle and the untextured draws.
ClipRects == {Rect(0, 0, 1, 1), Rect(1, 1, ScreenW, ScreenH), Rect(ScreenW, 0, 1, 1)}

RectInputs == {Rect(0, 0, 1, 1), Rect(1, 0, 1, 2)}

NextFrame ==
  \/ \E c \in Colors : set_clear_color(c[1], c[2], c[3])
  \/ begin_frame
  \/ end_frame
  \/ \E r \in ClipRects : set_clip_rect(r.x, r.y, r.w, r.h)
  \/ clear_clip_rect
  \/ \E t \in Transforms : set_viewport_transform(t.ox, t.oy, t.s)
  \/ clear_viewport_transform
  \/ \E r \in RectInputs, c \in Colors : draw_rect(r.x, r.y, r.w, r.h, c)
  \/ draw_rect(0, 0, 50, 50, WHITE)
  \/ \E x \in 0..1 : draw_line(0, 1, x, 1, WHITE)

SpecFrame == Init /\ [][NextFrame]_vars

\* The tiling loop alone, over heights and positions of either sign, with
\* one texture of one row or of MaxH rows; creates of no height or no width
\* are tried too, and handle 2 is never created.  The loop, once entered,
\* goes on taking steps.
ZeroArgs == {Args(1, 0, <<>>, -1), Args(0, 1, <<>>, 4), Args(1, 0, Rows(1), 4)}

NextTiling ==
  \/ \E a \in TileArgs \cup ZeroArgs :
       next_tex_id <= 1 /\ create_texture_rgba(a.w, a.h, a.data, a.pitch)
  \/ \E t \in 1..2, y \in -1..0, h \in -1..(ScreenH + 1) :
       draw_texture_tiled_y(t, 0, y, 1, h)
  \/ TileStep

SpecTiling == Init /\ [][NextTiling]_vars /\ WF_vars(TileStep)

\* The clip rectangle under every kind of draw, with one texture of one pixel.
NextClip ==
  \/ next_tex_id <= 1 /\ create_texture_rgba(1, 1, Rows(1), -1)
  \/ \E r \in ClipRects : set_clip_rect(r.x, r.y, r.w, r.h)
  \/ clear_clip_rect
  \/ \E t \in Transforms : set_viewport_transform(t.ox, t.oy, t.s)
  \/ clear_viewport_transform
  \/ begin_frame
  \/ draw_rect(0, 0, 1, 1, WHITE)
  \/ draw_line(0, 1, 1, 1, WHITE)
  \/ draw_texture(1, 0, 0, 1, 1)
  \/ draw_texture_tiled_y(1, 0, 0, 1, 2)
  \/ TileStep

SpecClip == Init /\ [][NextClip]_vars

\* Text measured and drawn at a few sizes under a few viewports, one of
\* them of scale 0.
FontSizes == {NoSize, Size(0), Size(5), Size(12)}
TextTransforms ==
  {[ox |-> 0, oy |-> 1, s |-> Scale(2, 1)], [ox |-> 1, oy |-> 0, s |-> Scale(1, 2)],
   [ox |-> 0, oy |-> 0, s |-> Scale(0, 1)]}

NextText ==
  \/ \E t \in TextTransforms : set_viewport_transform(t.ox, t.oy, t.s)
  \/ clear_viewport_transform
  \/ \E fs \in FontSizes : measure("ab", fs)
  \/ \E fs \in FontSizes, c \in Colors : draw(0, 1, "a", c, fs)

SpecText == Init /\ [][NextText]_vars

\* The event queue and poll().
\* Escape, the letter a, and left shift (1073742049), which the table lacks.
KeyCodes == {K_ESCAPE, K_a, 1073742049}
UnmappedKey == CHOOSE k \in KeyCodes : k \notin DOMAIN PYGAME_KEY_TO_KEY
RawEvents ==
  {[type |-> "QUIT"], [type |-> "ACTIVEEVENT", gain |-> 1, state |-> 1],
   [type |-> "WINDOWRESIZED", x |-> 4, y |-> 3],
   [type |-> "VIDEORESIZE", w |-> 4, h |-> 3, size |-> <<4, 3>>],
   [type |-> "TEXTINPUT", text |-> "a"],
   [type |-> "MOUSEMOTION", pos |-> <<1, 2>>, rel |-> <<1, 0>>, buttons |-> <<0, 0, 0>>],
   [type |-> "MOUSEBUTTONDOWN", pos |-> <<1, 2>>, button |-> 1],
   [type |-> "MOUSEBUTTONUP", pos |-> <<1, 2>>, button |-> 1],
   [type |-> "MOUSEWHEEL", x |-> 0, y |-> -1]}
  \cup {[type |-> "KEYDOWN", key |-> k, scancode |-> 41, mod |-> 0, repeat |-> FALSE] :
          k \in KeyCodes}
  \cup {[type |-> "KEYDOWN", key |-> K_a, mod |-> 1]}
  \cup {[type |-> "KEYUP", key |-> k, scancode |-> 41, mod |-> 0] : k \in KeyCodes}

NextInput ==
  \/ \E ev \in RawEvents : PostEvent(ev)
  \/ poll

SpecInput == Init /\ [][NextInput]_vars

\* ------------------------------------------------------------------ claims

\* C1: handles start at 1 and the k-th successful create_texture_rgba
\* returns handle k, whatever was destroyed in between; every handle in the
\* registry is in 1..(next handle - 1).
C1_HandlesNeverReused ==
  /\ \A k \in 1..Len(uploads) : uploads[k].handle = k
  /\ next_tex_id = Len(uploads) + 1
  /\ DOMAIN textures \subseteq 1..(next_tex_id - 1)
  /\ (last.op = "create_texture_rgba" /\ last.raised = NoError) => last.ret = Len(uploads)

\* MaxTex - 1 textures created, all of them destroyed, then one more created.
C1_Witness ==
  /\ last.op = "create_texture_rgba"
  /\ last.raised = NoError
  /\ last.ret = MaxTex
  /\ DOMAIN textures = {MaxTex}

\* C2: a create whose buffer is shorter than height*pitch (pitch taken as
\* width*4 when it is <= 0) raises the buffer-too-small error and leaves the
\* registry and the handle counter as they were.
C2_ShortBufferFails ==
  [][(/\ last'.op = "create_texture_rgba"
      /\ Len(last'.args.data) <
           last'.args.h * (IF last'.args.pitch <= 0 THEN last'.args.w * 4 ELSE last'.args.pitch))
     => (/\ last'.raised = BufferTooSmall
         /\ textures' = textures
         /\ next_tex_id' = next_tex_id)]_vars

\* A short padded buffer has been refused with a texture already registered.
C2_Witness ==
  /\ last.op = "create_texture_rgba"
  /\ last.raised = BufferTooSmall
  /\ last.args.pitch > last.args.w * 4
  /\ Len(last.args.data) >= last.args.w * last.args.h * 4
  /\ DOMAIN textures # {}

\* C3: draw_texture with a handle that is not registered raises nothing and
\* leaves the surface, the registry and the handle counter as they were.
C3_DrawUnknownIsNoOp ==
  [][(last'.op = "draw_texture" /\ last'.args.tex \notin DOMAIN textures)
     => (/\ last'.raised = NoError
         /\ screen' = screen
         /\ textures' = textures
         /\ next_tex_id' = next_tex_id)]_vars

\* A destroyed handle drawn under a scaled viewport on a painted surface.
C3_Witness ==
  /\ last.op = "draw_texture"
  /\ last.args.tex \notin DOMAIN textures
  /\ last.args.tex < next_tex_id
  /\ vp # Identity
  /\ \E p \in Pixels : screen[p] # BLACK

\* C4: draw_texture_tiled_y with a handle that is not registered returns
\* without raising.
C4_TiledUnknownIsNoOp ==
  (last.op = "draw_texture_tiled_y" /\ last.args.tex \notin DOMAIN textures)
    => last.raised = NoError

\* C5: destroy_texture raises nothing, removes the handle it is given and
\* nothing else, and changes nothing when the handle is not registered.
C5_DestroyIdempotent ==
  [][last'.op = "destroy_texture"
     => (/\ last'.raised = NoError
         /\ next_tex_id' = next_tex_id
         /\ DOMAIN textures' = DOMAIN textures \ {last'.args.tex}
         /\ \A t \in DOMAIN textures' : textures'[t] = textures[t]
         /\ last'.args.tex \notin DOMAIN textures => textures' = textures)]_vars

\* A handle never created is destroyed while textures are registered.
C5_Witness ==
  /\ last.op = "destroy_texture"
  /\ last.args.tex >= next_tex_id
  /\ DOMAIN textures # {}

\* The raw event types poll() has a branch for, and the type each becomes.
Recognized ==
  {"QUIT", "KEYDOWN", "KEYUP", "VIDEORESIZE", "TEXTINPUT", "MOUSEMOTION",
   "MOUSEBUTTONDOWN", "MOUSEBUTTONUP", "MOUSEWHEEL"}
Normalized(type) == IF type = "VIDEORESIZE" THEN "WINDOWRESIZED" ELSE type

\* The positions in the polled queue of the events of a recognized type,
\* and the rank of one of them among these.
RecognizedAt == {i \in 1..Len(polled) : polled[i].type \in Recognized}
RankOf(i) == Cardinality({j \in RecognizedAt : j <= i})

\* C6: poll() returns one event per raw event of a recognized type, in the
\* order of the raw queue, nothing for the other raw events, and leaves the
\* queue empty.
C6_PollMirrorsQueue ==
  last.op = "poll" =>
    /\ queue = <<>>
    /\ Len(out) = Cardinality(RecognizedAt)
    /\ \A i \in RecognizedAt :
         /\ out[RankOf(i)].type = Normalized(polled[i].type)
         /\ polled[i].type \in {"KEYDOWN", "KEYUP"} => out[RankOf(i)].key_code = polled[i].key

\* A full queue of a quit, an unrecognized event and a key-down of escape.
C6_Witness ==
  /\ last.op = "poll"
  /\ Len(polled) = MaxQueue
  /\ \E i \in 1..Len(polled) : polled[i].type \notin Recognized
  /\ Len(out) = MaxQueue - 1
  /\ out[1].type = "QUIT"
  /\ out[Len(out)].type = "KEYDOWN"
  /\ out[Len(out)].key = "ESCAPE"

\* C7: every raw key event comes out as an event of its kind with the raw
\* key code, and with the logical key of the table or, for a code the table
\* does not have, the null key.
C7_UnmappedKeysKept ==
  last.op = "poll" =>
    \A i \in 1..Len(polled) :
      polled[i].type \in {"KEYDOWN", "KEYUP"} =>
        /\ RankOf(i) \in 1..Len(out)
        /\ out[RankOf(i)].type = polled[i].type
        /\ out[RankOf(i)].key_code = polled[i].key
        /\ out[RankOf(i)].key =
             (IF polled[i].key \in DOMAIN PYGAME_KEY_TO_KEY
              THEN PYGAME_KEY_TO_KEY[polled[i].key] ELSE None)

\* A key-down and a key-up of a key the table does not have, and a mapped one.
C7_Witness ==
  /\ last.op = "poll"
  /\ \E i, j, k \in 1..Len(out) :
       /\ out[i].type = "KEYDOWN" /\ out[i].key = None /\ out[i].key_code = UnmappedKey
       /\ out[j].type = "KEYUP" /\ out[j].key = None /\ out[j].key_code = UnmappedKey
       /\ out[k].type = "KEYUP" /\ out[k].key = "A"

\* The pitch an upload was given, and whether two uploads hold the same
\* pixel bytes row by row.
PitchOf(u) == IF u.pitch <= 0 THEN u.w * 4 ELSE u.pitch
SourceByte(u, r, c) == u.data[r * PitchOf(u) + c + 1]
SamePixels(u, v) ==
  /\ u.w = v.w
  /\ u.h = v.h
  /\ \A r \in 0..(u.h - 1), c \in 0..(u.w * 4 - 1) : SourceByte(u, r, c) = SourceByte(v, r, c)
\* The uploads of rows not narrower than the texture whose texture is registered.
LiveWide ==
  {k \in 1..Len(uploads) :
     uploads[k].handle \in DOMAIN textures /\ PitchOf(uploads[k]) >= uploads[k].w * 4}

\* C8: a texture uploaded from tightly packed or padded rows holds in row r
\* the source bytes [r*pitch, r*pitch + width*4) and no padding byte, so two
\* uploads of the same pixels, padded or not, give the same texture.
C8_PaddedEqualsTight ==
  /\ \A k \in LiveWide :
       LET u == uploads[k]
           t == textures[u.handle]
       IN /\ t.w = u.w /\ t.h = u.h
          /\ Len(t.px) = u.w * u.h * 4
          /\ \A r \in 0..(u.h - 1), c \in 0..(u.w * 4 - 1) :
               t.px[r * u.w * 4 + c + 1] = SourceByte(u, r, c)
          /\ PitchOf(u) > u.w * 4 => \A i \in 1..Len(t.px) : t.px[i] \notin PadBytes
  /\ \A j, k \in LiveWide :
       SamePixels(uploads[j], uploads[k])
         => textures[uploads[j].handle].px = textures[uploads[k].handle].px

\* A tight and a padded upload of the same pixels of a texture of two rows
\* or more are both registered.
C8_Witness ==
  \E j, k \in LiveWide :
    /\ uploads[j].pitch = -1
    /\ uploads[k].pitch > uploads[k].w * 4
    /\ uploads[k].h >= 2
    /\ SamePixels(uploads[j], uploads[k])
    /\ \E i \in 1..Len(uploads[k].data) : uploads[k].data[i] \in PadBytes

\* C9: over a height h >= 0 with a tile of height tile_h > 0,
\* draw_texture_tiled_y blits h \div tile_h full tiles at y, y + tile_h, ...
\* and then, when h % tile_h > 0, the top h % tile_h rows of the tile once;
\* no row of the surface at or beyond y + h changes.
C9_TilesThenOnePartial ==
  [][/\ (/\ pc' = "idle"
         /\ last'.op = "draw_texture_tiled_y"
         /\ last'.raised = NoError
         /\ last'.args.h >= 0
         /\ last'.args.tile_h > 0)
        => LET f == last'.args
               n == f.h \div f.tile_h
               r == f.h % f.tile_h
               tile == TransformScale(textures[f.tex], f.w, f.tile_h)
           IN /\ Len(f.blits) = n + (IF r > 0 THEN 1 ELSE 0)
              /\ \A i \in 1..n :
                   f.blits[i] = [x |-> f.x, y |-> f.y + (i - 1) * f.tile_h,
                                 w |-> f.w, h |-> f.tile_h, px |-> tile.px]
              /\ r > 0 =>
                   f.blits[n + 1] = [x |-> f.x, y |-> f.y + n * f.tile_h, w |-> f.w,
                                     h |-> r, px |-> SubSeq(tile.px, 1, r * f.w * 4)]
     /\ pc = "tiling" =>
          \A p \in Pixels :
            p[2] >= last.args.y + last.args.h => screen'[p] = screen[p]]_vars

\* A tile of two rows or more has filled its own height and one row more.
C9_Witness ==
  /\ pc = "idle"
  /\ last.op = "draw_texture_tiled_y"
  /\ last.raised = NoError
  /\ last.args.tile_h >= 2
  /\ last.args.h = last.args.tile_h + 1
  /\ Len(last.args.blits) = 2
  /\ last.args.blits[2].h = 1
  /\ last.args.blits[2].y < ScreenH

\* C10: after begin_frame() every pixel of the surface has the clear colour.
C10_BeginFrameFillsSurface ==
  last.op = "begin_frame" =>
    \A p \in Pixels : screen[p] = <<clear[1], clear[2], clear[3]>>

Abs(n) == IF n < 0 THEN 0 - n ELSE n
\* r is an integer nearest to n/d (d > 0); a tie has two of them.
Nearest(n, d, r) == 2 * Abs(n - r * d) <= d

\* C11: draw_rect(x, y, w, h) fills the rectangle at
\* (offset_x + round(x*scale), offset_y + round(y*scale)) of size
\* (round(w*scale), round(h*scale)) under the viewport in force, and paints
\* its pixels inside the clip area and no other pixel; the viewport in force
\* is the one the last set_viewport_transform stored, or offset (0, 0) and
\* scale 1 after clear_viewport_transform, and no other call changes it;
\* under offset (10, 20) and scale 2, draw_rect(0, 0, 50, 50) fills the
\* rectangle of 100x100 pixels at (10, 20).
C11_RectFollowsViewport ==
  [][/\ last'.op = "draw_rect" =>
          LET a == last'.args
              r == a.rect
          IN /\ Nearest(a.x * vp.s.num, vp.s.den, r.x - vp.ox)
             /\ Nearest(a.y * vp.s.num, vp.s.den, r.y - vp.oy)
             /\ Nearest(a.w * vp.s.num, vp.s.den, r.w)
             /\ Nearest(a.h * vp.s.num, vp.s.den, r.h)
             /\ \A p \in Pixels :
                  screen'[p] = IF InRect(p, r) /\ InRect(p, clip) THEN a.color ELSE screen[p]
             /\ (/\ vp = [ox |-> 10, oy |-> 20, s |-> Scale(2, 1)]
                 /\ <<a.x, a.y, a.w, a.h>> = <<0, 0, 50, 50>>)
                  => r = Rect(10, 20, 100, 100)
     /\ last'.op = "set_viewport_transform" =>
          vp' = [ox |-> last'.args.offset_x, oy |-> last'.args.offset_y,
                 s |-> last'.args.scale]
     /\ last'.op = "clear_viewport_transform" => vp' = Identity
     /\ last'.op \notin {"set_viewport_transform", "clear_viewport_transform"} => vp' = vp]_vars

\* A white 1x1 rectangle drawn at (0, 0) under offset (0, 1) and scale 2,
\* set after another viewport had been cleared: the four pixels below the
\* top row are white and the top row is not.
C11_Witness ==
  /\ last.op = "draw_rect"
  /\ vp = [ox |-> 0, oy |-> 1, s |-> Scale(2, 1)]
  /\ last.args.rect = Rect(0, 1, 2, 2)
  /\ last.args.color = WHITE
  /\ \A p \in Pixels : (screen[p] = WHITE) <=> (p[1] < 2 /\ p[2] \in {1, 2})

\* C12: set_clip_rect(x, y, w, h) makes the clip area the pixels of the
\* rectangle (x, y, w, h) itself, whatever the viewport offset and scale;
\* clear_clip_rect makes it the whole surface; no other call changes it; and
\* no call changes a pixel outside the clip area in force.
C12_ClipIsPhysical ==
  [][/\ last'.op = "set_clip_rect" =>
          \A p \in Pixels : InRect(p, clip') <=> InRect(p, last'.args)
     /\ last'.op = "clear_clip_rect" => \A p \in Pixels : InRect(p, clip')
     /\ last'.op \notin {"set_clip_rect", "clear_clip_rect"} => clip' = clip
     /\ \A p \in Pixels : ~InRect(p, clip) => screen'[p] = screen[p]]_vars

\* Under a viewport of scale 2 the clip has been set to the top left pixel,
\* on a surface where draws made under a clip have painted a pixel and left
\* its neighbour.
C12_Witness ==
  /\ last.op = "set_clip_rect"
  /\ vp.s = Scale(2, 1)
  /\ last.args = Rect(0, 0, 1, 1)
  /\ clip = Rect(0, 0, 1, 1)
  /\ screen[<<1, 1>>] # BLACK
  /\ screen[<<0, 1>>] = BLACK

\* C13: a draw_texture_tiled_y over the native height of a registered tile
\* and a draw_texture with the same handle, x, y, w and h under the same
\* viewport blit at the same physical position a surface of the same
\* physical width.
C13_TiledPlacedAsDrawTexture ==
  [][(/\ pc = "idle" /\ pc' = "idle"
      /\ last.op = "draw_texture_tiled_y"
      /\ last.raised = NoError
      /\ last.args.h = last.args.tile_h
      /\ last'.op = "draw_texture"
      /\ last'.args.tex \in DOMAIN textures
      /\ <<last'.args.tex, last'.args.x, last'.args.y, last'.args.w, last'.args.h>>
           = <<last.args.tex, last.args.x, last.args.y, last.args.w, last.args.h>>)
     => (/\ Len(last.args.blits) >= 1
         /\ Len(last'.args.blits) >= 1
         /\ last'.args.blits[1].x = last.args.blits[1].x
         /\ last'.args.blits[1].y = last.args.blits[1].y
         /\ last'.args.blits[1].w = last.args.blits[1].w)]_vars

\* C14: measure and draw resolve the font of size max(8, round(font_size *
\* scale)) for a font_size that is given and of size 24 for None, whichever
\* of the two is called; the font is the cache's entry under that size; the
\* call adds that entry when the cache lacks it and changes no other; no
\* step removes or replaces an entry; every key is >= 8; and one font has
\* been constructed per key.
C14_FontCacheKeys ==
  [][/\ last'.op \in {"measure", "draw"} =>
          LET fs == last'.args.font_size
              key == last'.args.font.size
              n == IF fs = NoSize THEN 0 ELSE fs[1] * vp.s.num
              d == vp.s.den
          IN /\ fs = NoSize => key = 24
             /\ fs # NoSize =>
                  /\ key >= 8
                  /\ key > 8 => Nearest(n, d, key)
                  /\ key = 8 => 2 * n <= 17 * d
             /\ DOMAIN fonts' = DOMAIN fonts \cup {key}
             /\ fonts'[key] = last'.args.font
     /\ \A k \in DOMAIN fonts : k \in DOMAIN fonts' /\ fonts'[k] = fonts[k]
     /\ \A k \in DOMAIN fonts' : k >= 8 /\ fonts'[k].size = k
     /\ Len(font_log') = Cardinality(DOMAIN fonts')
     /\ \A k \in DOMAIN fonts' : \E i \in 1..Len(font_log') : font_log'[i] = k]_vars

\* Under scale 2 a draw at font_size 5 has used the font of size 10 that an
\* earlier call put in the cache, which holds three fonts or more.
C14_Witness ==
  /\ last.op = "draw"
  /\ vp.s = Scale(2, 1)
  /\ last.args.font_size = Size(5)
  /\ last.args.font.size = 10
  /\ last.args.font.serial < Len(font_log)
  /\ Cardinality(DOMAIN fonts) >= 3

\* C15: every draw_texture_tiled_y on a registered texture leaves its loop;
\* a registered texture has one row or more (a create of no height or no
\* width is refused), each pass of the loop that does not leave it blits
\* once and moves cur_y down by tile_h >= 1, so that a call over h rows
\* makes h blits at most, and none when h <= 0.
C15_TilingTerminates ==
  /\ (pc = "tiling") ~> (pc = "idle")
  /\ [](\A t \in DOMAIN textures : textures[t].h >= 1 /\ textures[t].w >= 1)
  /\ []((last.op = "draw_texture_tiled_y" /\ last.raised = NoError) =>
          /\ last.args.tile_h >= 1
          /\ Len(last.args.blits) <= Max(last.args.h, 0)
          /\ last.args.h <= 0 => (last.args.blits = <<>> /\ last.args.cur_y >= last.args.end_y))
  /\ [][(pc = "tiling" /\ pc' = "tiling") =>
          /\ last'.args.end_y - last'.args.cur_y < last.args.end_y - last.args.cur_y
          /\ Len(last'.args.blits) = Len(last.args.blits) + 1]_vars

\* A call over a height of -1 on a registered texture has returned without
\* a blit, after a create of no height was refused.
C15_Witness ==
  /\ pc = "idle"
  /\ last.op = "draw_texture_tiled_y"
  /\ last.raised = NoError
  /\ last.args.h < 0
  /\ last.args.blits = <<>>
  /\ last.args.tex \in DOMAIN textures

\* C16: after a create_texture_rgba of a size of at least 1x1 whose pitch
\* (taken as width*4 when <= 0) differs from width*4 and whose buffer holds
\* height*pitch bytes or more, every row slice [r*pitch, r*pitch + width*4)
\* lies inside the source buffer, the repacked buffer is width*height*4
\* bytes long with those bytes of the source in row r, and the upload
\* raises nothing.
C16_RepackStaysInBounds ==
  (/\ last.op = "create_texture_rgba"
   /\ last.args.w >= 1 /\ last.args.h >= 1
   /\ PitchOf(last.args) # last.args.w * 4
   /\ Len(last.args.data) >= last.args.h * PitchOf(last.args))
  => LET a == last.args
         buf == UploadBytes(a.w, a.h, a.data, a.pitch)
     IN /\ \A r \in 0..(a.h - 1) : r * PitchOf(a) + a.w * 4 <= Len(a.data)
        /\ Len(buf) = a.w * a.h * 4
        /\ \A r \in 0..(a.h - 1), c \in 0..(a.w * 4 - 1) :
             buf[r * a.w * 4 + c + 1] = SourceByte(a, r, c)
        /\ last.raised = NoError

====
